---- MODULE Spec2Model ----
(***************************************************************************)
(* A model of spm_to_graph (src/src/main.rs): one run of `main`, from the   *)
(* parsed command line to the output action.                                *)
(*                                                                          *)
(* Strings are sequences of one-character strings, so that the identifier   *)
(* check of Identity::id and Path::extension are computed, not assumed.     *)
(* An Option is a record: None, or Some(v).                                 *)
(***************************************************************************)
EXTENDS Integers, Sequences, FiniteSets, TLC

\* ------------------------------------------------------------------ bounds

\* The longest target list of a generated manifest.
MaxTargets == 2
\* The most dependency entries (internal and product together) of a
\* generated manifest.
MaxDepEntries == 2

\* ----------------------------------------------------------------- options

None == [some |-> FALSE]
Some(v) == [some |-> TRUE, v |-> v]

\* Option::unwrap_or_default on an Option<Vec<String>>.
UnwrapOrDefault(opt) == IF opt.some THEN opt.v ELSE <<>>

\* ----------------------------------------------------------------- strings

\* A byte that is not part of any UTF-8 text (a lone 0xFF in an OsString).
NonUtf8 == "\\xFF"

Letters ==
    {"a","b","c","d","e","f","g","h","i","j","k","l","m",
     "n","o","p","q","r","s","t","u","v","w","x","y","z",
     "A","B","C","D","E","F","G","H","I","J","K","L","M",
     "N","O","P","Q","R","S","T","U","V","W","X","Y","Z"}

Digits == {"0","1","2","3","4","5","6","7","8","9"}

\* Identity::id accepts exactly the unquoted DOT identifiers: a letter or
\* underscore, then letters, digits and underscores.
IdentityOk(name) ==
    /\ Len(name) > 0
    /\ name[1] \in Letters \cup {"_"}
    /\ \A k \in 1..Len(name) : name[k] \in Letters \cup Digits \cup {"_"}

\* The position of the last occurrence of ch in s, 0 when there is none.
LastIndexOf(s, ch) ==
    LET hits == {k \in 1..Len(s) : s[k] = ch}
    IN  IF hits = {} THEN 0 ELSE CHOOSE k \in hits : \A h \in hits : h <= k

\* Path::file_name for a path that does not end in a separator.
FileName(path) ==
    LET k == LastIndexOf(path, "/")
    IN  SubSeq(path, k + 1, Len(path))

\* Path::extension: the part of the file name after its last dot; None when
\* the file name has no dot, or only a leading one, or is "..".
Extension(path) ==
    LET file == FileName(path)
        k    == LastIndexOf(file, ".")
    IN  IF file = <<".", ".">> \/ k <= 1
        THEN None
        ELSE Some(SubSeq(file, k + 1, Len(file)))

\* OsStr::to_str and Path::to_str: None unless the bytes are valid UTF-8.
ToStr(os) ==
    IF \E k \in 1..Len(os) : os[k] = NonUtf8 THEN None ELSE Some(os)

\* format!("{}.dot", name)
DefaultOutput(name) == name \o <<".", "d", "o", "t">>

\* The extension the output is dispatched on (lines 231-234): the path's
\* extension as text, "dot" when there is none or it is not UTF-8.
OutputExtension(path) ==
    LET ext == Extension(path)
        str == IF ext.some THEN ToStr(ext.v) ELSE None
    IN  IF str.some THEN str.v ELSE <<"d", "o", "t">>

\* ------------------------------------------------------- the manifest JSON

\* The tags of enum TargetType under rename_all = "snake_case".
TargetType == {"executable", "library", "macro", "test"}

\* A tag `swift package describe` prints that TargetType does not list.
OtherTag == "plugin"

NmA == <<"A">>
NmB == <<"B">>
NmC == <<"C">>
NmD == <<"D">>
NmL == <<"L">>
NmFoo == <<"F", "o", "o">>
NmLogging == <<"L", "o", "g">>
\* Not DOT identifiers: a hyphenated name, a name starting with a digit.
NmHyphen == <<"a", "-", "b">>
NmDigit == <<"9", "x">>

\* A target object of the JSON document: the fields main reads.  The other
\* required fields of struct Target are summed up in the document's
\* `complete`.
TargetDoc(name, type, tdeps, pdeps) ==
    [name |-> name, type |-> type,
     target_dependencies |-> tdeps, product_dependencies |-> pdeps]

\* The standard output of the subprocess: bytes that are a JSON document or
\* not (`json`), a document with every required field of struct Package and
\* struct Target or not (`complete`).
JsonDoc(name, targets) ==
    [json |-> TRUE, complete |-> TRUE, name |-> name, targets |-> targets]

Garbage == [json |-> FALSE, complete |-> FALSE, name |-> <<>>, targets |-> <<>>]

Incomplete(doc) == [doc EXCEPT !.complete = FALSE]

\* serde_json::from_slice::<Package>: an error unless the bytes are JSON with
\* every required field and every target's type is a TargetType tag.
FromSlice(stdout) ==
    IF /\ stdout.json
       /\ stdout.complete
       /\ \A k \in 1..Len(stdout.targets) : stdout.targets[k].type \in TargetType
    THEN Some([name |-> stdout.name,
               targets |-> [k \in 1..Len(stdout.targets) |->
                   [name |-> stdout.targets[k].name,
                    target_type |-> stdout.targets[k].type,
                    target_dependencies |-> stdout.targets[k].target_dependencies,
                    product_dependencies |-> stdout.targets[k].product_dependencies]]])
    ELSE None

\* ------------------------------------------------------ generated manifests

\* The k-th generated target's name: the names are distinct (SwiftPM rejects
\* a package with two targets of one name).
GenTargetNames == <<NmA, NmB, NmC, NmD>>
\* What a dependency entry may name: a target before or after the one that
\* lists it or that target itself, and a name that is no target's.
GenDepNames == {NmA, NmB, NmL}
GenTypes == {"library", "test"}

\* A dependency array as the JSON carries it: absent when empty.
OptList(s) == IF Len(s) = 0 THEN None ELSE Some(s)

Entries(t) ==
    Len(UnwrapOrDefault(t.target_dependencies))
        + Len(UnwrapOrDefault(t.product_dependencies))

\* The target objects of the given name with at most `budget` dependency
\* entries.
GenTargets(name, budget) ==
    UNION { UNION { { TargetDoc(name, ty, OptList(td), OptList(pd)) :
                        ty \in GenTypes,
                        td \in [1..a -> GenDepNames],
                        pd \in [1..b -> GenDepNames] }
                    : b \in 0..(budget - a) }
            : a \in 0..budget }

\* The target lists that continue at position k up to length n, with at most
\* `budget` dependency entries.
RECURSIVE GenTargetLists(_, _, _)
GenTargetLists(k, n, budget) ==
    IF k > n
    THEN {<<>>}
    ELSE UNION { { <<t>> \o rest :
                     rest \in GenTargetLists(k + 1, n, budget - Entries(t)) }
                 : t \in GenTargets(GenTargetNames[k], budget) }

GenDocs ==
    UNION { { JsonDoc(NmFoo, ts) : ts \in GenTargetLists(1, n, MaxDepEntries) }
            : n \in 1..MaxTargets }

\* -------------------------------------------------------------- the graph

\* A node statement.  `list` is not part of the program's data: it records
\* which list of the manifest the statement was added for ("targets",
\* "target_dependencies" or "product_dependencies"), so that properties can
\* speak of a statement's origin.
NodeStmt(id, colour, list) ==
    [stmt |-> "node", id |-> id, color |-> colour, shape |-> "Box", list |-> list]

\* An edge statement head -> to, with the same record of its origin.
EdgeStmt(head, to, list) ==
    [stmt |-> "edge", head |-> head, to |-> to, list |-> list]

\* StmtList::add_node: the statement list is a vector of statements and the
\* node statement is pushed at its end, whatever the list already holds.
add_node(stmts, id, colour, list) == Append(stmts, NodeStmt(id, colour, list))

\* add_edge as a graph that rejects self-loops would have it.
add_edge_NoSelfLoop(stmts, head, to, list) ==
    IF head = to THEN stmts ELSE Append(stmts, EdgeStmt(head, to, list))

\* StmtList::add_edge: the edge statement is pushed at the end.
add_edge(stmts, head, to, list) == Append(stmts, EdgeStmt(head, to, list))

\* ProductDependencies with the test of line 198 left out.
ProductDependencies_IgnoresFlag(target, skip_product_dependencies) ==
    UnwrapOrDefault(target.product_dependencies)

\* The product dependencies the loop of lines 198-215 walks: none when
\* --skip-product-dependencies is given.
ProductDependencies(target, skip_product_dependencies) ==
    IF ~skip_product_dependencies
    THEN UnwrapOrDefault(target.product_dependencies)
    ELSE <<>>

\* Skipped with the flag left out of the test of line 168.
Skipped_AnyTest(target, skip_test_targets) == target.target_type = "test"

\* Whether the loop skips the target (line 168).
Skipped(target, skip_test_targets) ==
    skip_test_targets /\ target.target_type = "test"

\* The body of either dependency loop (lines 182-197, 199-214): for each
\* name, a node statement of the given colour, then the edge head -> name.
RECURSIVE AddDependencies(_, _, _, _, _)
AddDependencies(stmts, head, deps, colour, list) ==
    IF Len(deps) = 0
    THEN stmts
    ELSE AddDependencies(
             add_edge(add_node(stmts, Head(deps), colour, list),
                      head, Head(deps), list),
             head, Tail(deps), colour, list)

\* AddTarget with the internal dependencies given the attributes of the
\* product dependencies (Color::Blue at line 188).
AddTarget_InternalBlue(stmts, target, skip_product_dependencies) ==
    LET own      == add_node(stmts, target.name, "Black", "targets")
        internal == AddDependencies(own, target.name,
                        UnwrapOrDefault(target.target_dependencies),
                        "Blue", "target_dependencies")
    IN  AddDependencies(internal, target.name,
            ProductDependencies(target, skip_product_dependencies),
            "Blue", "product_dependencies")

\* One iteration of the loop over the targets for a target that is not
\* skipped (lines 172-215).
AddTarget(stmts, target, skip_product_dependencies) ==
    LET own      == add_node(stmts, target.name, "Black", "targets")
        internal == AddDependencies(own, target.name,
                        UnwrapOrDefault(target.target_dependencies),
                        "Black", "target_dependencies")
    IN  AddDependencies(internal, target.name,
            ProductDependencies(target, skip_product_dependencies),
            "Blue", "product_dependencies")

\* CollectedNames with the product names checked before the flag is.
CollectedNames_AllProducts(target, skip_product_dependencies) ==
    <<target.name>>
        \o UnwrapOrDefault(target.target_dependencies)
        \o UnwrapOrDefault(target.product_dependencies)

\* The names one iteration hands to Identity::id(..).unwrap().
CollectedNames(target, skip_product_dependencies) ==
    <<target.name>>
        \o UnwrapOrDefault(target.target_dependencies)
        \o ProductDependencies(target, skip_product_dependencies)

\* Graph's Display: the keyword, the identifier and the statements in order.
GraphToString(g) ==
    [keyword |-> IF g.strict THEN "strict digraph" ELSE "digraph",
     id |-> g.id, body |-> g.stmts]

\* ------------------------------------------------------------------ state

VARIABLES
    cli,          \* struct Cli as Cli::parse() returned it
    swift,        \* what `swift package describe --type json` will do
    pc,           \* where main is
    panic_line,   \* the line of main whose unwrap/expect panicked, 0 if none
    describe_dir, \* the directory the subprocess was run in, None if not run
    output,       \* the subprocess's Output, None before line 161
    package,      \* the parsed Package, None before line 163
    next_target,  \* the position of the loop of line 167 in package.targets
    statements,   \* the StmtList
    graph,        \* the built Graph, None before line 223
    file,         \* the file std::fs::File::create made, None if none
    dot,          \* the renderer process that was spawned, None if none
    printed       \* what println! wrote

vars == <<cli, swift, pc, panic_line, describe_dir, output, package,
          next_target, statements, graph, file, dot, printed>>

\* ------------------------------------------------------------ sample runs

PkgDir == <<"p", "k", "g">>

PathDot == <<"g", ".", "d", "o", "t">>
PathSvg == <<"g", ".", "s", "v", "g">>
PathPng == <<"g", ".", "p", "n", "g">>
PathTxt == <<"g", ".", "t", "x", "t">>
PathBare == <<"g">>
\* A directory with a dot in its name, a file name without one.
PathDirBare == <<"o", ".", "d", "/", "g">>
\* An extension that is not UTF-8.
PathNonUtf8Ext == <<"g", ".", NonUtf8>>
\* A file name that is not UTF-8 before a known extension.
PathNonUtf8Svg == <<NonUtf8, ".", "s", "v", "g">>
PathNonUtf8Png == <<NonUtf8, ".", "p", "n", "g">>

OutputArgs ==
    {None} \cup
    { Some(p) : p \in {PathDot, PathSvg, PathPng, PathTxt, PathBare, PathDirBare,
                       PathNonUtf8Ext, PathNonUtf8Svg, PathNonUtf8Png} }

\* Package Foo: A depends on target B and on product Log; B on nothing.
DocFoo ==
    JsonDoc(NmFoo,
        << TargetDoc(NmA, "library", Some(<<NmB>>), Some(<<NmLogging>>)),
           TargetDoc(NmB, "library", None, None) >>)

\* The same with a test target C that depends on A, and B named as a product.
DocTests ==
    JsonDoc(NmFoo,
        << TargetDoc(NmA, "executable", Some(<<NmB, NmC>>), Some(<<>>)),
           TargetDoc(NmB, "macro", Some(<<>>), None),
           TargetDoc(NmC, "test", Some(<<NmA>>), Some(<<NmB>>)) >>)

\* A package whose own name is not a DOT identifier.
DocBadPackageName ==
    JsonDoc(NmHyphen, << TargetDoc(NmA, "library", None, None) >>)

\* Names that are not DOT identifiers in a test target and in product lists.
DocBadNames ==
    JsonDoc(NmFoo,
        << TargetDoc(NmA, "library", Some(<<NmB>>), Some(<<NmHyphen>>)),
           TargetDoc(NmDigit, "test", None, Some(<<NmLogging>>)) >>)

\* A name that is not a DOT identifier in a list of internal dependencies.
DocBadInternal ==
    JsonDoc(NmFoo,
        << TargetDoc(NmA, "library", Some(<<NmB, NmHyphen>>), None),
           TargetDoc(NmB, "test", Some(<<NmDigit>>), None) >>)

\* A package with a target of a type TargetType does not list.
DocPlugin ==
    JsonDoc(NmFoo,
        << TargetDoc(NmA, "library", None, None),
           TargetDoc(NmB, OtherTag, None, None) >>)

SampleStdouts ==
    {DocFoo, DocTests, DocBadPackageName, DocBadNames, DocBadInternal, DocPlugin,
     Incomplete(DocFoo), Garbage}

\* The subprocess: it cannot be executed, or it exits with a status and
\* what it wrote on its standard output.
SwiftRun(status, stdout) == [exec |-> TRUE, status |-> status, stdout |-> stdout]

SwiftMissing == [exec |-> FALSE, status |-> 0, stdout |-> Garbage]

CliArgs(input, out, skip_test, skip_product) ==
    [input |-> input, output |-> out,
     skip_test_targets |-> skip_test, skip_product_dependencies |-> skip_product]

\* Runs over every generated manifest, with the directory given, the default
\* output path and a subprocess that succeeds.
InitManifests ==
    /\ \E st \in BOOLEAN, sp \in BOOLEAN :
           cli = CliArgs(Some(PkgDir), None, st, sp)
    /\ \E doc \in GenDocs : swift = SwiftRun(0, doc)

\* Runs over every command line and every behaviour of the subprocess, with
\* the sample documents.
InitCommandLines ==
    /\ \E input \in {None, Some(PkgDir)}, out \in OutputArgs,
          st \in BOOLEAN, sp \in BOOLEAN :
           cli = CliArgs(input, out, st, sp)
    /\ \/ swift = SwiftMissing
       \/ \E status \in {0, 1}, stdout \in SampleStdouts :
              swift = SwiftRun(status, stdout)

Init ==
    /\ InitManifests \/ InitCommandLines
    /\ pc = "start"
    /\ panic_line = 0
    /\ describe_dir = None
    /\ output = None
    /\ package = None
    /\ next_target = 0
    /\ statements = <<>>
    /\ graph = None
    /\ file = None
    /\ dot = None
    /\ printed = <<>>

\* ---------------------------------------------------------------- actions

\* An unwrap or expect at `line` panics: the process ends there.
Panic(line) ==
    /\ pc' = "panicked"
    /\ panic_line' = line

\* Lines 157-161: run the subprocess in cli.input.
RunDescribe ==
    /\ pc = "start"
    /\ \/ /\ ~cli.input.some
          /\ Panic(159)
          /\ UNCHANGED <<describe_dir, output>>
       \/ /\ cli.input.some
          /\ ~swift.exec
          /\ Panic(161)
          /\ UNCHANGED <<describe_dir, output>>
       \/ /\ cli.input.some
          /\ swift.exec
          /\ describe_dir' = Some(cli.input.v)
          /\ output' = Some([status |-> swift.status, stdout |-> swift.stdout])
          /\ pc' = "described"
          /\ UNCHANGED panic_line
    /\ UNCHANGED <<cli, swift, package, next_target, statements, graph,
                   file, dot, printed>>

\* Lines 163-165: parse the standard output, start the statement list.
ParsePackage ==
    /\ pc = "described"
    /\ LET parsed == FromSlice(output.v.stdout)
       IN  \/ /\ ~parsed.some
              /\ Panic(163)
              /\ UNCHANGED <<package, next_target>>
           \/ /\ parsed.some
              /\ package' = parsed
              /\ next_target' = 1
              /\ pc' = "targets"
              /\ UNCHANGED panic_line
    /\ UNCHANGED <<cli, swift, describe_dir, output, statements, graph,
                   file, dot, printed>>

\* The line of the first Identity::id(..).unwrap() of an iteration that
\* fails for the target.
IdentityPanicLine(target) ==
    IF ~IdentityOk(target.name) THEN 173
    ELSE IF \E k \in 1..Len(UnwrapOrDefault(target.target_dependencies)) :
                ~IdentityOk(UnwrapOrDefault(target.target_dependencies)[k])
         THEN 184
         ELSE 201

\* Lines 168-170: a test target under --skip-test-targets.
SkipTarget ==
    /\ pc = "targets"
    /\ next_target <= Len(package.v.targets)
    /\ Skipped(package.v.targets[next_target], cli.skip_test_targets)
    /\ next_target' = next_target + 1
    /\ UNCHANGED <<cli, swift, pc, panic_line, describe_dir, output, package,
                   statements, graph, file, dot, printed>>

\* Lines 172-215: one iteration for a target that is not skipped.
ProcessTarget ==
    /\ pc = "targets"
    /\ next_target <= Len(package.v.targets)
    /\ LET target == package.v.targets[next_target]
           names  == CollectedNames(target, cli.skip_product_dependencies)
       IN  /\ ~Skipped(target, cli.skip_test_targets)
           /\ \/ /\ \E k \in 1..Len(names) : ~IdentityOk(names[k])
                 /\ Panic(IdentityPanicLine(target))
                 /\ UNCHANGED <<statements, next_target>>
              \/ /\ \A k \in 1..Len(names) : IdentityOk(names[k])
                 /\ statements' =
                        AddTarget(statements, target, cli.skip_product_dependencies)
                 /\ next_target' = next_target + 1
                 /\ UNCHANGED <<pc, panic_line>>
    /\ UNCHANGED <<cli, swift, describe_dir, output, package, graph,
                   file, dot, printed>>

\* Lines 217-223: the loop is over, build the graph.
BuildGraph ==
    /\ pc = "targets"
    /\ next_target > Len(package.v.targets)
    /\ \/ /\ ~IdentityOk(package.v.name)
          /\ Panic(220)
          /\ UNCHANGED graph
       \/ /\ IdentityOk(package.v.name)
          /\ graph' = Some([graph_type |-> "DiGraph", strict |-> FALSE,
                            id |-> package.v.name, stmts |-> statements])
          /\ pc' = "built"
          /\ UNCHANGED panic_line
    /\ UNCHANGED <<cli, swift, describe_dir, output, package, next_target,
                   statements, file, dot, printed>>

\* Lines 228-230.
OutputPath ==
    IF cli.output.some THEN cli.output.v ELSE DefaultOutput(package.v.name)

\* Lines 237-241: create the file and write the graph text to it.  Creating
\* and writing can each fail.
WriteDot ==
    /\ pc = "built"
    /\ OutputExtension(OutputPath) = <<"d", "o", "t">>
    /\ \/ /\ Panic(239)
          /\ UNCHANGED file
       \/ /\ file' = Some([path |-> OutputPath, bytes |-> None])
          /\ Panic(240)
       \/ /\ file' = Some([path |-> OutputPath,
                           bytes |-> Some(GraphToString(graph.v))])
          /\ pc' = "done"
          /\ UNCHANGED panic_line
    /\ UNCHANGED <<cli, swift, describe_dir, output, package, next_target,
                   statements, graph, dot, printed>>

\* Lines 243-248 and 251-256: spawn `dot -T<format> -o <path>` and write the
\* graph text to its standard input; main does not wait for it.
Render(format, line) ==
    /\ pc = "built"
    /\ OutputExtension(OutputPath) = format
    /\ LET flag == IF format = <<"s", "v", "g">> THEN "-Tsvg" ELSE "-Tpng"
       IN  \/ /\ ~ToStr(OutputPath).some
              /\ Panic(line + 1)
              /\ UNCHANGED dot
           \/ /\ ToStr(OutputPath).some
              /\ Panic(line + 4)
              /\ UNCHANGED dot
           \/ /\ ToStr(OutputPath).some
              /\ dot' = Some([args |-> <<flag, "-o", OutputPath>>, stdin |-> None])
              /\ Panic(line + 5)
           \/ /\ ToStr(OutputPath).some
              /\ dot' = Some([args |-> <<flag, "-o", OutputPath>>,
                              stdin |-> Some(GraphToString(graph.v))])
              /\ pc' = "done"
              /\ UNCHANGED panic_line
    /\ UNCHANGED <<cli, swift, describe_dir, output, package, next_target,
                   statements, graph, file, printed>>

RenderSvg == Render(<<"s", "v", "g">>, 243)

RenderPng == Render(<<"p", "n", "g">>, 251)

\* Lines 258-260: any other extension.
UnknownExtension ==
    /\ pc = "built"
    /\ OutputExtension(OutputPath) \notin
           {<<"d", "o", "t">>, <<"s", "v", "g">>, <<"p", "n", "g">>}
    /\ printed' = Append(printed, "Unknown output extension")
    /\ pc' = "done"
    /\ UNCHANGED <<cli, swift, panic_line, describe_dir, output, package,
                   next_target, statements, graph, file, dot>>

Next ==
    \/ RunDescribe
    \/ ParsePackage
    \/ SkipTarget
    \/ ProcessTarget
    \/ BuildGraph
    \/ WriteDot
    \/ RenderSvg
    \/ RenderPng
    \/ UnknownExtension

Spec == Init /\ [][Next]_vars

\* ------------------------------------------------- what the properties use

\* The loop of lines 165-216 over the first `upto` targets, as a function of
\* the target list and the two flags.
RECURSIVE BuildStatements(_, _, _, _)
BuildStatements(targets, upto, skip_test_targets, skip_product_dependencies) ==
    IF upto = 0
    THEN <<>>
    ELSE LET before == BuildStatements(targets, upto - 1, skip_test_targets,
                                       skip_product_dependencies)
         IN  IF Skipped(targets[upto], skip_test_targets)
             THEN before
             ELSE AddTarget(before, targets[upto], skip_product_dependencies)

\* The targets of the parsed package, none before it is parsed.
Targets == IF package.some THEN package.v.targets ELSE <<>>

\* The positions of the targets the loop is past.
Visited == {k \in 1..Len(Targets) : k < next_target}

\* The positions of the targets the loop has processed: visited, not skipped.
Processed == {k \in Visited : ~Skipped(Targets[k], cli.skip_test_targets)}

\* The dependency entries of a target that are not suppressed, in order.
Dependencies(target) ==
    UnwrapOrDefault(target.target_dependencies)
        \o ProductDependencies(target, cli.skip_product_dependencies)

Range(seq) == {seq[k] : k \in 1..Len(seq)}

\* The positions in the statement list of the node statements for a name.
NodesOf(name) ==
    {k \in 1..Len(statements) :
        statements[k].stmt = "node" /\ statements[k].id = name}

\* The positions in the statement list of the edge statements.
Edges == {k \in 1..Len(statements) : statements[k].stmt = "edge"}

HasEdge(head, to) ==
    \E k \in Edges : statements[k].head = head /\ statements[k].to = to

Min(S) == CHOOSE k \in S : \A h \in S : k <= h

RECURSIVE SumEntries(_)
SumEntries(S) ==
    IF S = {}
    THEN 0
    ELSE LET k == CHOOSE x \in S : TRUE
         IN  Len(Dependencies(Targets[k])) + SumEntries(S \ {k})

FromProducts(s) == s.list = "product_dependencies"
NotFromProducts(s) == s.list # "product_dependencies"

\* Whether the output action has been reached.
Dispatched == pc = "done" \/ (pc = "panicked" /\ panic_line >= 239)

\* ----------------------------------------------------------------- claims

\* C1: every target that is not skipped has exactly one node statement in
\* the accumulated statement list, however many targets list its name as a
\* dependency, before or after it.
C1_OneNodePerTarget ==
    graph.some =>
        \A k \in Processed : Cardinality(NodesOf(Targets[k].name)) = 1

\* C2: a name that two different processed targets list as a dependency has
\* exactly one node statement, and its style is that of its first insertion.
C2_OneNodeFirstStyle ==
    graph.some =>
        \A i \in Processed : \A j \in Processed \ {i} :
            \A d \in Range(Dependencies(Targets[i]))
                        \cap Range(Dependencies(Targets[j])) :
                /\ Cardinality(NodesOf(d)) = 1
                /\ \A k \in NodesOf(d) :
                       statements[k].color = statements[Min(NodesOf(d))].color

\* C3: for every processed target T and every name D of its internal
\* dependencies, the statement list holds an edge T -> D and a node statement
\* for D styled internal (black), under either setting of
\* skip_product_dependencies and whether or not D is a target.
C3_InternalDependencies ==
    \A k \in Processed :
        \A d \in Range(UnwrapOrDefault(Targets[k].target_dependencies)) :
            /\ HasEdge(Targets[k].name, d)
            /\ \E n \in NodesOf(d) :
                   statements[n].color = "Black" /\ statements[n].shape = "Box"

\* A processed target, under skip_product_dependencies, with an internal
\* dependency that is no target of the manifest, and one without the flag.
C3_Witness ==
    /\ graph.some
    /\ \E k \in Processed :
           \E d \in Range(UnwrapOrDefault(Targets[k].target_dependencies)) :
               /\ \A j \in 1..Len(Targets) : Targets[j].name # d
               /\ cli.skip_product_dependencies
               /\ Len(UnwrapOrDefault(Targets[k].product_dependencies)) > 0

\* C4: the statements built with skip_product_dependencies set are those
\* built from the same targets with it unset, less the statements that come
\* from a product-dependency list: no statement of the set version comes
\* from such a list, and the target nodes, internal-dependency nodes and
\* internal-dependency edges are the same, in the same order.
C4_SkipProductDependencies ==
    LET other == BuildStatements(Targets, Cardinality(Visited),
                     cli.skip_test_targets, ~cli.skip_product_dependencies)
    IN  /\ SelectSeq(statements, NotFromProducts) = SelectSeq(other, NotFromProducts)
        /\ cli.skip_product_dependencies =>
               /\ SelectSeq(statements, FromProducts) = <<>>
               /\ statements = SelectSeq(other, NotFromProducts)
               /\ \A k \in 1..Len(statements) : statements[k].stmt = "node" =>
                      statements[k].color = "Black"

\* Package Foo, A depending on B and on product Log, with the flag: node
\* statements for A and B only, the single edge A -> B.
C4_Witness ==
    /\ graph.some
    /\ cli.skip_product_dependencies
    /\ output.v.stdout = DocFoo
    /\ {statements[k].id : k \in (1..Len(statements)) \ Edges} = {NmA, NmB}
    /\ Cardinality(Edges) = 1
    /\ HasEdge(NmA, NmB)
    /\ NodesOf(NmLogging) = {}

\* The targets with every type replaced by library.
AsLibraries(targets) ==
    [k \in 1..Len(targets) |-> [targets[k] EXCEPT !.target_type = "library"]]

\* C5: with skip_test_targets, a test target adds no node statement of its
\* own and no edge leaving it; a name a processed target lists still gets
\* its node statement and its edge, also when it is a skipped test target's
\* name; without the flag a test target is processed as any other target.
C5_SkipTestTargets ==
    /\ cli.skip_test_targets =>
           \A k \in Visited : Targets[k].target_type = "test" =>
               /\ \A n \in NodesOf(Targets[k].name) : statements[n].list # "targets"
               /\ \A e \in Edges : statements[e].head # Targets[k].name
    /\ \A k \in Processed : \A d \in Range(Dependencies(Targets[k])) :
           /\ HasEdge(Targets[k].name, d)
           /\ \E n \in NodesOf(d) : statements[n].list # "targets"
    /\ ~cli.skip_test_targets =>
           statements = BuildStatements(AsLibraries(Targets), Cardinality(Visited),
                            FALSE, cli.skip_product_dependencies)

\* A skipped test target whose name a processed target lists: the name has a
\* node statement and no edge leaves it.
C5_Witness ==
    /\ graph.some
    /\ cli.skip_test_targets
    /\ \E k \in Visited : \E j \in Processed :
           /\ Targets[k].target_type = "test"
           /\ Targets[k].name \in Range(Dependencies(Targets[j]))
           /\ Len(Dependencies(Targets[k])) > 0
           /\ NodesOf(Targets[k].name) # {}

WroteFile == file.some \/ panic_line \in {239, 240}

Rendered(flag, first, last) ==
    /\ file = None
    /\ printed = <<>>
    /\ \/ panic_line \in first..last
       \/ /\ dot.some
          /\ dot.v.args = <<flag, "-o", OutputPath>>
          /\ dot.v.stdin = Some(GraphToString(graph.v))

\* C6: the output action is decided by the output path's extension alone:
\* dot, no extension or no output argument: the graph text is written to the
\* file; svg or png: it is piped to the renderer with that format's flag and
\* the path; any other extension: a message is printed, nothing is written,
\* no renderer is started and the run ends normally.
C6_DispatchByExtension ==
    Dispatched =>
        LET ext == Extension(OutputPath)
        IN  IF ~ext.some \/ ext.v = <<"d", "o", "t">>
            THEN WroteFile /\ dot = None /\ printed = <<>>
            ELSE IF ext.v = <<"s", "v", "g">> THEN Rendered("-Tsvg", 244, 248)
            ELSE IF ext.v = <<"p", "n", "g">> THEN Rendered("-Tpng", 252, 256)
            ELSE /\ pc = "done"
                 /\ printed = <<"Unknown output extension">>
                 /\ file = None
                 /\ dot = None

\* C7: with no input argument the run does not fail for it: the subprocess
\* is run for the current directory.
C7_AbsentInputRuns ==
    (~cli.input.some /\ pc # "start") => (panic_line # 159 /\ describe_dir.some)

\* C8: a subprocess that exits with a non-zero status is fatal at once,
\* whatever it printed: the run goes no further than the parse, and no file
\* is written and no renderer started.
C8_NonZeroStatusFatal ==
    (output.some /\ output.v.status # 0) =>
        /\ pc \in {"described", "panicked"}
        /\ file = None
        /\ dot = None

\* The failures C9 names: the subprocess cannot be executed (161), its
\* output is not the expected JSON (163), a collected name is not a DOT
\* identifier (173, 184, 201, 220).
NamedFailure == panic_line \in {161, 163, 173, 184, 201, 220}

\* C9: the run fails, before any output action, when the subprocess cannot
\* be executed, when its output does not parse, and when a collected name
\* (a processed target's, an internal dependency's, a product dependency's
\* that is not suppressed, the package's) is not a DOT identifier; such a
\* run has made no file, started no renderer and printed nothing.  A
\* skipped test target's names and suppressed product names are not
\* collected: an identifier failure is always that of a collected name.
C9_FailFast ==
    /\ (cli.input.some /\ ~swift.exec /\ pc # "start") => panic_line = 161
    /\ (output.some /\ ~FromSlice(output.v.stdout).some /\ pc # "described") =>
           panic_line = 163
    /\ \A k \in Processed :
           \A d \in {Targets[k].name} \cup Range(Dependencies(Targets[k])) :
               IdentityOk(d)
    /\ graph.some => IdentityOk(package.v.name)
    /\ NamedFailure => (pc = "panicked" /\ file = None /\ dot = None /\ printed = <<>>)
    /\ pc = "panicked" => panic_line # 0
    /\ panic_line \in {173, 184, 201} =>
           /\ next_target \in 1..Len(Targets)
           /\ ~Skipped(Targets[next_target], cli.skip_test_targets)
           /\ \E d \in {Targets[next_target].name}
                       \cup Range(Dependencies(Targets[next_target])) : ~IdentityOk(d)
    /\ panic_line = 220 => ~IdentityOk(package.v.name)

\* A run that failed on a product name that is not a DOT identifier, after
\* the subprocess ran and its output parsed; nothing was written.
C9_Witness ==
    /\ pc = "panicked"
    /\ panic_line = 201
    /\ ~cli.skip_product_dependencies
    /\ file = None
    /\ dot = None

\* C10: every edge leaves a processed target of the manifest, its
\* destination need not be a target; no edge is dropped for being a
\* self-loop or a duplicate: there are as many edges as dependency entries,
\* not suppressed, of processed targets; the built graph holds exactly the
\* accumulated statements.
C10_Edges ==
    /\ \A e \in Edges : \E k \in Processed : statements[e].head = Targets[k].name
    /\ Cardinality(Edges) = SumEntries(Processed)
    /\ \A k \in Processed : \A d \in Range(Dependencies(Targets[k])) :
           Cardinality({e \in Edges : statements[e].head = Targets[k].name
                                       /\ statements[e].to = d})
             = Cardinality({n \in 1..Len(Dependencies(Targets[k])) :
                               Dependencies(Targets[k])[n] = d})
    /\ graph.some => graph.v.stmts = statements

\* A built graph with a self-loop that is listed twice.
C10_Witness ==
    /\ graph.some
    /\ \E e \in Edges : \E f \in Edges \ {e} :
           /\ statements[e].head = statements[e].to
           /\ statements[f].head = statements[e].head
           /\ statements[f].to = statements[e].to

====
